---- MODULE Spec2Model ----
(***************************************************************************)
(* wayland-debug: the driver (src/main.py) and the session it drives.      *)
(*                                                                         *)
(* main() turns the -f / -b texts into the filter and stop matchers,       *)
(* builds the session, and parse_messages() feeds every record of the      *)
(* decoder to it, closes the connections and, for a loaded file, runs the  *)
(* interactive shell.  The matcher and the session are not part of         *)
(* src/main.py; they are modelled from their specification (sections 4.1   *)
(* and 4.3).                                                               *)
(***************************************************************************)
EXTENDS Naturals, Sequences, FiniteSets

\* ------------------------------------------------------------------ bounds
MaxLen  == 2     \* records the decoder yields before the input ends
MaxConn == 2     \* connection ids 1..MaxConn
MaxCmds == 2     \* operator commands typed at the prompt

Conns == 1..MaxConn
Times == {0, 1}  \* an earlier and a later timestamp

\* ------------------------------------------------------------ input values
\* A query text is the sequence of its tokens; <<>> is an absent option
\* (argparse's None, which `if args.f:` treats as false).
CommitText  == <<"wl_surface", ".", "commit">>
DestroyText == <<"wl_surface", ".", "destroy">>
BadText     == <<"(", "wl_surface">>
NoText      == <<>>
FilterTexts == {NoText, CommitText, BadText}     \* -f
StopTexts   == {NoText, DestroyText, BadText}    \* -b

NoPath      == ""
GoodPath    == "trace.log"
MissingPath == "missing.log"
Paths       == {NoPath, GoodPath, MissingPath}

\* What the decoder can put in a record: (name, sent).
MsgShapes ==
    { <<"get_registry", TRUE>>, <<"get_registry", FALSE>>,
      <<"commit", TRUE>>, <<"destroy", TRUE>> }

Msgs ==
    { [timestamp |-> t, sent |-> sh[2], name |-> sh[1]] :
        t \in Times, sh \in MsgShapes }

\* The operator's lines at the prompt.
Commands == { <<"continue">>, <<"quit">>, <<"wl_surface">>, BadText }

\* --------------------------------------------------------------- matcher
always == [kind |-> "always", iface |-> "*", msg |-> "*"]
never  == [kind |-> "never",  iface |-> "*", msg |-> "*"]

Atom(iface, msg) == [kind |-> "atom", iface |-> iface, msg |-> msg]

Reserved == {"(", ")", ".", "!", "&", "|"}

\* parse(query): an atom is `*`, an interface name, or interface.method;
\* anything else fails.  ok = FALSE is the failure main() catches.
MatcherParse(q) ==
    IF Len(q) = 1 /\ q[1] \notin Reserved
      THEN [ok |-> TRUE, m |-> Atom(q[1], "*")]
    ELSE IF Len(q) = 3 /\ q[2] = "." /\ q[1] \notin Reserved /\ q[3] \notin Reserved
      THEN [ok |-> TRUE, m |-> Atom(q[1], q[3])]
    ELSE [ok |-> FALSE, m |-> never]

\* simplify(): constant folding; `*` with no message filter is `always`.
Simplify(m) ==
    IF m.kind = "atom" /\ m.iface = "*" /\ m.msg = "*" THEN always ELSE m

\* The protocol catalog: the interface of the object a message is on.
InterfaceOf(msg) ==
    IF msg.name = "get_registry" THEN "wl_display" ELSE "wl_surface"

\* evaluate(record, table)
Matches(m, msg) ==
    CASE m.kind = "always" -> TRUE
      [] m.kind = "never"  -> FALSE
      [] OTHER -> /\ (m.iface = "*" \/ m.iface = InterfaceOf(msg))
                  /\ (m.msg = "*" \/ m.msg = msg.name)

\* --------------------------------------------------------------- session
NoConn == [status |-> "none", role |-> "Unknown", opened_at |-> 0,
           closed_at |-> 0, last_ts |-> 0]

\* Session(filter_matcher, stop_matcher, output)
NewSession(f, b) ==
    [ filter   |-> f,
      stop     |-> b,
      state    |-> "Running",
      conns    |-> [c \in Conns |-> NoConn],
      emitted  |-> <<>>,
      queued   |-> <<>>,
      trigger  |-> <<>>,
      faults   |-> <<>>,
      warnings |-> <<>>,
      calls    |-> <<>> ]

Logged(s, call) == [s EXCEPT !.calls = Append(@, call)]

RoleOf(is_server) ==
    CASE is_server = "True"  -> "Server"
      [] is_server = "False" -> "Client"
      [] OTHER               -> "Unknown"

\* session.open_connection(id, is_server, time)
SessionOpen(s0, id, is_server, time) ==
    LET s == Logged(s0, [op |-> "open", id |-> id, hint |-> is_server,
                         time |-> time, state |-> s0.state])
    IN IF s.conns[id].status # "none"
         THEN [s EXCEPT !.faults = Append(@, <<"UsageFault", id>>)]
         ELSE [s EXCEPT !.conns[id] =
                 [status |-> "open", role |-> RoleOf(is_server),
                  opened_at |-> time, closed_at |-> 0, last_ts |-> time]]

\* session.message(conn_id, msg)
SessionMessage(s0, id, msg) ==
    LET s == Logged(s0, [op |-> "message", id |-> id, msg |-> msg,
                         state |-> s0.state])
        c == s.conns[id]
    IN IF c.status = "none"
         THEN [s EXCEPT !.faults = Append(@, <<"UnknownConnection", id>>)]
       ELSE IF c.status = "closed"
         THEN [s EXCEPT !.faults = Append(@, <<"ConnectionClosed", id>>)]
       ELSE
         LET show  == Matches(s.filter, msg)
             halt  == s.state = "Running" /\ Matches(s.stop, msg)
             late  == msg.timestamp < c.last_ts
         IN [s EXCEPT
               !.conns[id].last_ts = msg.timestamp,
               !.warnings = IF late THEN Append(@, <<"OutOfOrderTimestamp", id>>) ELSE @,
               !.emitted  = IF show /\ s.state = "Running" THEN Append(@, msg) ELSE @,
               !.queued   = IF show /\ s.state # "Running" THEN Append(@, msg) ELSE @,
               !.state    = IF halt THEN "Stopped" ELSE @,
               !.trigger  = IF halt THEN <<msg>> ELSE @]

\* session.close_connection(id, time)
SessionClose(s0, id, time) ==
    LET s == Logged(s0, [op |-> "close", id |-> id, time |-> time,
                         state |-> s0.state])
    IN IF s.conns[id].status # "open"
         THEN [s EXCEPT !.faults = Append(@, <<"UsageFault", id>>)]
         ELSE [s EXCEPT !.conns[id].status = "closed",
                        !.conns[id].closed_at = time]

\* session.command(text)
SessionCommand(s0, text) ==
    LET s == Logged(s0, [op |-> "command", text |-> text, state |-> s0.state])
    IN IF s.state # "Stopped"
         THEN [s EXCEPT !.faults = Append(@, <<"UsageFault", 0>>)]
       ELSE IF text = <<"continue">>
         THEN [s EXCEPT !.state = "Running",
                        !.emitted = @ \o s.queued,
                        !.queued = <<>>]
       ELSE IF text = <<"quit">>
         THEN [s EXCEPT !.state = "Quit"]
       ELSE IF MatcherParse(text).ok
         THEN s
       ELSE [s EXCEPT !.warnings = Append(@, <<"SyntaxError", 0>>)]

SessionStopped(s) == s.state = "Stopped"
SessionQuit(s)    == s.state = "Quit"

\* ------------------------------------------------------------ main(): -f, -b
filter_matcher_never_on_error(args) ==
    IF args.f = NoText THEN always
    ELSE IF MatcherParse(args.f).ok THEN Simplify(MatcherParse(args.f).m)
    ELSE never

filter_matcher(args) ==
    IF args.f = NoText THEN always
    ELSE IF MatcherParse(args.f).ok THEN Simplify(MatcherParse(args.f).m)
    ELSE always

stop_matcher_from_f(args) ==
    IF args.b = NoText THEN never
    ELSE IF MatcherParse(args.f).ok THEN Simplify(MatcherParse(args.f).m)
    ELSE never

stop_matcher(args) ==
    IF args.b = NoText THEN never
    ELSE IF MatcherParse(args.b).ok THEN Simplify(MatcherParse(args.b).m)
    ELSE never

\* output.error(e) of the two except blocks, in order
matcher_errors(args) ==
    (IF args.f # NoText /\ ~MatcherParse(args.f).ok THEN <<"f">> ELSE <<>>)
    \o (IF args.b # NoText /\ ~MatcherParse(args.b).ok THEN <<"b">> ELSE <<>>)

\* --------------------------------------------------------- parse_messages
SeqToSet(q) == { q[i] : i \in 1..Len(q) }

is_server_hint(msg) ==
    IF msg.name = "get_registry"
      THEN (IF msg.sent THEN "False" ELSE "True")
      ELSE "None"

is_known_never(known, conn_id) == FALSE

is_known(known, conn_id) == conn_id \in SeqToSet(known)

remember(known, conn_id) ==
    IF is_known(known, conn_id) THEN known ELSE Append(known, conn_id)

RECURSIVE close_all(_, _, _)
close_all(s, known, time) ==
    IF known = <<>> THEN s
    ELSE close_all(SessionClose(s, Head(known), time), Tail(known), time)

loop_body_skip_while_stopped(s, known, conn_id, msg) ==
    LET opened == IF ~is_known(known, conn_id)
                    THEN SessionOpen(s, conn_id, is_server_hint(msg), msg.timestamp)
                    ELSE s
    IN IF SessionStopped(opened) THEN opened
       ELSE SessionMessage(opened, conn_id, msg)

loop_body_close_inside(s, known, conn_id, msg) ==
    LET opened == IF ~is_known(known, conn_id)
                    THEN SessionOpen(s, conn_id, is_server_hint(msg), msg.timestamp)
                    ELSE s
    IN close_all(SessionMessage(opened, conn_id, msg),
                 remember(known, conn_id), msg.timestamp)

\* one iteration of `for conn_id, msg in parse.file(...)`
loop_body(s, known, conn_id, msg) ==
    LET opened == IF ~is_known(known, conn_id)
                    THEN SessionOpen(s, conn_id, is_server_hint(msg), msg.timestamp)
                    ELSE s
    IN SessionMessage(opened, conn_id, msg)

\* ------------------------------------------------------ interactive_shell
shell_prompts_until_quit(s) == ~SessionQuit(s)

\* `while session.stopped(): if session.quit(): break`
shell_prompts(s) == SessionStopped(s) /\ ~SessionQuit(s)

\* ------------------------------------------------------------------ state
VARIABLES
    pc,                 \* "main", "loop", "shell", "done"
    args,               \* main.py:71     [f, b, path]
    session,            \* main.py:130    the Session, once constructed
    errors,             \* main.py:55,118,126   output.error calls
    warns,              \* main.py:146    output.warn calls
    allow_shell,        \* main.py:25
    known_connections,  \* main.py:27     keys of the dict, in insertion order
    last_time,          \* main.py:28
    decoded             \* main.py:29     what the decoder has yielded, in order

vars == <<pc, args, session, errors, warns, allow_shell, known_connections,
          last_time, decoded>>

Init ==
    /\ pc = "main"
    /\ args \in [f : FilterTexts, b : StopTexts, path : Paths]
    /\ session = NewSession(always, never)
    /\ errors = <<>>
    /\ warns = <<>>
    /\ allow_shell = FALSE
    /\ known_connections = <<>>
    /\ last_time = 0
    /\ decoded = <<>>

\* main() up to the first read of parse_messages; not inside GDB.
Main ==
    /\ pc = "main"
    /\ session' = NewSession(filter_matcher(args), stop_matcher(args))
    /\ errors' = matcher_errors(args)
                   \o (IF args.path = MissingPath THEN <<"not found">> ELSE <<>>)
    /\ warns' = IF args.path = NoPath /\ args.b # NoText
                  THEN <<"Ignoring stop matcher when stdin is used for messages">>
                  ELSE <<>>
    /\ allow_shell' = (args.path = GoodPath)
    /\ pc' = IF args.path = MissingPath THEN "done" ELSE "loop"
    /\ UNCHANGED <<args, known_connections, last_time, decoded>>

\* the decoder yields (conn_id, msg)
ParseRecord ==
    /\ pc = "loop"
    /\ Len(decoded) < MaxLen
    /\ \E conn_id \in Conns, msg \in Msgs :
         /\ decoded' = Append(decoded, <<conn_id, msg>>)
         /\ last_time' = msg.timestamp
         /\ known_connections' = remember(known_connections, conn_id)
         /\ session' = loop_body(session, known_connections, conn_id, msg)
    /\ UNCHANGED <<pc, args, errors, warns, allow_shell>>

\* the input ends: close every connection, then the shell or 'Done'
EndOfInput ==
    /\ pc = "loop"
    /\ session' = close_all(session, known_connections, last_time)
    /\ pc' = IF allow_shell /\ shell_prompts(session') THEN "shell" ELSE "done"
    /\ UNCHANGED <<args, errors, warns, allow_shell, known_connections,
                   last_time, decoded>>

NumCommands(s) == Cardinality({ i \in 1..Len(s.calls) : s.calls[i].op = "command" })

\* cmd = input('wl debug $ '); session.command(cmd)
ShellCommand ==
    /\ pc = "shell"
    /\ NumCommands(session) < MaxCmds
    /\ \E cmd \in Commands :
         /\ session' = SessionCommand(session, cmd)
         /\ pc' = IF shell_prompts(session') THEN "shell" ELSE "done"
    /\ UNCHANGED <<args, errors, warns, allow_shell, known_connections,
                   last_time, decoded>>

Next == Main \/ ParseRecord \/ EndOfInput \/ ShellCommand

Spec == Init /\ [][Next]_vars

\* ---------------------------------------------------------------- history
MessageCalls == SelectSeq(session.calls, LAMBDA c : c.op = "message")

CallIdx(op, id) ==
    { i \in 1..Len(session.calls) :
        session.calls[i].op = op /\ session.calls[i].id = id }

CommandIdx == { i \in 1..Len(session.calls) : session.calls[i].op = "command" }

DecodedConns == { decoded[i][1] : i \in 1..Len(decoded) }

FaultKinds == { session.faults[i][1] : i \in 1..Len(session.faults) }

MsgsOf(calls) == [i \in 1..Len(calls) |-> calls[i].msg]

\* ------------------------------------------------------------------ claims

\* C1: every record the decoder yields is passed to session.message exactly
\* once, in the decoder's order and with its own connection id, whether the
\* session is Running or Stopped at the time.
C1_DeliveredOnceInOrder ==
    LET mc == MessageCalls
    IN /\ Len(mc) = Len(decoded)
       /\ \A i \in 1..Len(decoded) :
            /\ mc[i].id = decoded[i][1]
            /\ mc[i].msg = decoded[i][2]

C1_Witness ==
    /\ pc = "done"
    /\ Len(decoded) = 2
    /\ decoded[1][1] # decoded[2][1]
    /\ Len(MessageCalls) = 2
    /\ MessageCalls[2].state = "Stopped"

\* C2: open_connection is called exactly once for every connection id of the
\* trace and before the first message of that id, so neither a duplicate open
\* nor a message on a never-opened connection is ever reported.
C2_OpenedOnceBeforeFirstMessage ==
    /\ \A id \in Conns :
         LET opens == CallIdx("open", id)
             msgs  == CallIdx("message", id)
         IN /\ id \in DecodedConns => Cardinality(opens) = 1
            /\ id \notin DecodedConns => opens = {}
            /\ \A o \in opens, m \in msgs : o < m
            /\ msgs # {} => opens # {}
    /\ "UsageFault" \notin FaultKinds
    /\ "UnknownConnection" \notin FaultKinds

C2_Witness ==
    /\ Len(decoded) = 2
    /\ decoded[1][1] = decoded[2][1]
    /\ Cardinality(CallIdx("message", decoded[1][1])) = 2
    /\ Cardinality(CallIdx("open", decoded[1][1])) = 1

\* C3: after close_connection(id, time) no session.message call is made for
\* that id, so ConnectionClosed is never reported.
C3_NoMessageAfterClose ==
    /\ \A id \in Conns :
         LET closes == CallIdx("close", id)
             msgs   == CallIdx("message", id)
         IN \A c \in closes, m \in msgs : m < c
    /\ "ConnectionClosed" \notin FaultKinds

C3_Witness ==
    /\ pc = "done"
    /\ \A id \in Conns :
         /\ CallIdx("close", id) # {}
         /\ CallIdx("message", id) # {}
         /\ session.conns[id].status = "closed"

\* C4: session.command is only invoked while the session is Stopped (and so
\* not Quit), and no further command is read once a command has moved the
\* session to Running or to Quit.
C4_CommandOnlyWhileStopped ==
    /\ LET cmds == CommandIdx
       IN /\ \A i \in cmds : session.calls[i].state = "Stopped"
          /\ \A i \in cmds, j \in cmds :
               i < j => session.calls[i].text \notin {<<"continue">>, <<"quit">>}
    /\ pc = "shell" => SessionStopped(session) /\ ~SessionQuit(session)

C4_Witness ==
    /\ pc = "done"
    /\ Cardinality(CommandIdx) = 2
    /\ \E i \in CommandIdx : session.calls[i].text = <<"continue">>
    /\ session.state = "Running"

\* C5: while the trace is consumed, the emitted records are exactly the
\* records received while Running that match the filter, and the session is
\* Stopped exactly from the first record that matches the stop matcher, which
\* is the trigger whether or not the filter matches it.  With -f
\* wl_surface.commit and -b wl_surface.destroy, one commit then one destroy on
\* the same connection emit only the commit and end Stopped on the destroy.
StopHits(mc) == { i \in 1..Len(mc) : Matches(session.stop, mc[i].msg) }

Least(S) == CHOOSE i \in S : \A j \in S : i <= j

C5_FilterAndStopIndependent ==
    /\ pc = "loop" =>
         LET mc   == MessageCalls
             hits == StopHits(mc)
         IN /\ session.emitted =
                 MsgsOf(SelectSeq(mc,
                          LAMBDA c : c.state = "Running" /\ Matches(session.filter, c.msg)))
            /\ hits = {} => session.state = "Running" /\ session.trigger = <<>>
            /\ hits # {} =>
                 LET first == Least(hits)
                 IN /\ session.state = "Stopped"
                    /\ session.trigger = <<mc[first].msg>>
                    /\ \A i \in 1..Len(mc) : mc[i].state = "Running" <=> i <= first
    /\ ( /\ pc # "main"
         /\ args.f = CommitText /\ args.b = DestroyText
         /\ Len(decoded) = 2
         /\ decoded[1][1] = decoded[2][1]
         /\ decoded[1][2].name = "commit" /\ decoded[2][2].name = "destroy"
         /\ CommandIdx = {} )
       => /\ session.emitted = <<decoded[1][2]>>
          /\ session.state = "Stopped"
          /\ session.trigger = <<decoded[2][2]>>

C5_Witness ==
    /\ pc = "shell"
    /\ args.f = CommitText /\ args.b = DestroyText
    /\ Len(decoded) = 2
    /\ decoded[1][1] = decoded[2][1]
    /\ decoded[1][2].name = "commit" /\ decoded[2][2].name = "destroy"
    /\ session.emitted = <<decoded[1][2]>>
    /\ session.trigger = <<decoded[2][2]>>

\* C6: a -f text that fails to parse is reported and leaves the filter
\* `always`; a -b text that fails is reported and leaves the stop matcher
\* `never`; the failure of one does not change the other, and main() goes on
\* to read the trace.
C6_BadMatcherKeepsDefault ==
    [][ pc = "main" =>
          /\ args.f = BadText =>
               /\ session'.filter = always
               /\ \E i \in 1..Len(errors') : errors'[i] = "f"
          /\ args.b = BadText =>
               /\ session'.stop = never
               /\ \E i \in 1..Len(errors') : errors'[i] = "b"
          /\ args.f = BadText /\ args.b = DestroyText =>
               session'.stop = Atom("wl_surface", "destroy")
          /\ args.f = BadText /\ args.b = NoText => session'.stop = never
          /\ args.b = BadText /\ args.f = CommitText =>
               session'.filter = Atom("wl_surface", "commit")
          /\ args.b = BadText /\ args.f = NoText => session'.filter = always
          /\ args.path # MissingPath => pc' = "loop"
      ]_vars

C6_Witness ==
    /\ pc = "done"
    /\ args.f = BadText /\ args.b = DestroyText
    /\ session.filter = always
    /\ Len(MessageCalls) = 2
    /\ Len(session.emitted) >= 1
    /\ session.trigger # <<>>

\* C7: a connection's role is that of the first get_registry message seen on
\* the connection, at whatever position it occurs: Client when it was sent,
\* Server when it was received, Unknown when there is none.
RegistryIdx(id) ==
    { i \in 1..Len(decoded) :
        decoded[i][1] = id /\ decoded[i][2].name = "get_registry" }

ExpectedRole(id) ==
    IF RegistryIdx(id) = {} THEN "Unknown"
    ELSE IF decoded[Least(RegistryIdx(id))][2].sent THEN "Client" ELSE "Server"

C7_RoleFromFirstGetRegistry ==
    \A id \in DecodedConns : session.conns[id].role = ExpectedRole(id)

\* C8: for a loaded file, from the moment the session is Stopped until a
\* command returns it to Running, no record is consumed from the trace and no
\* connection is closed.
C8_PipelineBlockedWhileStopped ==
    allow_shell =>
      \A i \in 1..Len(session.calls) :
          session.calls[i].op \in {"message", "close"}
            => session.calls[i].state # "Stopped"

\* C9: with messages read from stdin the stop matcher is ignored: the session
\* never leaves Running and no operator command is read.
C9_StdinIgnoresStopMatcher ==
    (pc # "main" /\ args.path = NoPath)
      => /\ session.state = "Running"
         /\ CommandIdx = {}

\* C10: when timestamps are non-decreasing within each connection, every
\* connection is closed at a time not earlier than its opening time and not
\* earlier than the timestamp of any message delivered on it.
MonotonicPerConnection ==
    \A i \in 1..Len(decoded), j \in 1..Len(decoded) :
        (i < j /\ decoded[i][1] = decoded[j][1])
          => decoded[i][2].timestamp <= decoded[j][2].timestamp

C10_ClosedNotBeforeOpenedOrMessages ==
    MonotonicPerConnection =>
      \A id \in Conns :
          session.conns[id].status = "closed" =>
            /\ session.conns[id].opened_at <= session.conns[id].closed_at
            /\ \A i \in CallIdx("message", id) :
                 session.calls[i].msg.timestamp <= session.conns[id].closed_at

====
